---- MODULE Spec2Model ----
(***************************************************************************)
(* Model of extract_c20c_data (c20c_data_grabber.py): path rendering,      *)
(* optional hsi verification, clobber check, directory bookkeeping and     *)
(* one htar invocation per variable.                                       *)
(*                                                                         *)
(* Strings are sequences of one-character strings.  Filesystem paths are   *)
(* sequences of segments; the filesystem is the set of existing            *)
(* directories plus the set of directories holding at least one file.      *)
(***************************************************************************)
EXTENDS Integers, Sequences, FiniteSets, TLC

VARIABLES
    variable_list, path_template, institution, output_directory,
    verify_first, clobber,
    pc, i, htar_paths, htar_path, out_dir, cwd,
    procCwd, dirs, files,
    calls, checks, result

vars == << variable_list, path_template, institution, output_directory,
           verify_first, clobber,
           pc, i, htar_paths, htar_path, out_dir, cwd,
           procCwd, dirs, files,
           calls, checks, result >>

inputs == << variable_list, path_template, institution, output_directory,
             verify_first, clobber >>

----------------------------------------------------------------------------
(* Bounds *)

MaxVars == 3

----------------------------------------------------------------------------
(* Python string primitives *)

Slash == "/"

\* s[k:] with Python's treatment of a negative start
Slice(s, k) ==
    LET n     == Len(s)
        start == IF k < 0 THEN (IF n + k < 0 THEN 0 ELSE n + k)
                 ELSE (IF k > n THEN n ELSE k)
    IN  SubSeq(s, start + 1, n)

StartsAt(s, sub, k) ==
    /\ k + Len(sub) <= Len(s)
    /\ \A j \in 1..Len(sub) : s[k + j] = sub[j]

\* str.find: lowest 0-based index where sub occurs, -1 when it does not
Find(s, sub) ==
    LET hits == { k \in 0..Len(s) : StartsAt(s, sub, k) }
    IN  IF hits = {} THEN -1
        ELSE CHOOSE k \in hits : \A m \in hits : k <= m

\* str.rfind("/") + 1
RFindSlash1(p) ==
    LET hits == { k \in 1..Len(p) : p[k] = Slash }
    IN  IF hits = {} THEN 0
        ELSE CHOOSE k \in hits : \A m \in hits : m <= k

RECURSIVE RStripSlash(_)
RStripSlash(s) ==
    IF s # <<>> /\ s[Len(s)] = Slash
    THEN RStripSlash(SubSeq(s, 1, Len(s) - 1))
    ELSE s

AllSlashes(s) == \A k \in 1..Len(s) : s[k] = Slash

\* os.path.dirname (posixpath)
Dirname(p) ==
    LET head == SubSeq(p, 1, RFindSlash1(p))
    IN  IF head # <<>> /\ ~AllSlashes(head) THEN RStripSlash(head) ELSE head

----------------------------------------------------------------------------
(* Request fields and path templates *)

None == << "None" >>

experiment == << "A" >>
run        == << "r" >>
model      == << "m" >>
estimate   == << "e" >>
version    == << "v" >>

FieldNames == { "experiment", "run", "variable", "institution",
                "model", "estimate", "version" }

FieldValue(name, variable, inst) ==
    CASE name = "experiment"  -> experiment
      [] name = "run"         -> run
      [] name = "variable"    -> variable
      [] name = "institution" -> inst
      [] name = "model"       -> model
      [] name = "estimate"    -> estimate
      [] name = "version"     -> version

Lit(s)      == [ t |-> "lit",   name |-> "", k |-> 0, s |-> s ]
Fld(n)      == [ t |-> "field", name |-> n,  k |-> 0, s |-> <<>> ]
Idx(n, k)   == [ t |-> "index", name |-> n,  k |-> k, s |-> <<>> ]

\* str.format on one replacement field: KeyError for a name that was not
\* passed, IndexError for {name[k]} beyond the value's length
TokenOk(tok, variable, inst) ==
    CASE tok.t = "lit"   -> TRUE
      [] tok.t = "field" -> tok.name \in FieldNames
      [] tok.t = "index" -> /\ tok.name \in FieldNames
                            /\ tok.k < Len(FieldValue(tok.name, variable, inst))

TokenText(tok, variable, inst) ==
    CASE tok.t = "lit"   -> tok.s
      [] tok.t = "field" -> FieldValue(tok.name, variable, inst)
      [] tok.t = "index" -> << FieldValue(tok.name, variable, inst)[tok.k + 1] >>

RECURSIVE Concat(_, _, _)
Concat(tpl, variable, inst) ==
    IF tpl = <<>> THEN <<>>
    ELSE TokenText(Head(tpl), variable, inst) \o Concat(Tail(tpl), variable, inst)

\* path_template.format(...): the rendered path, or a raised exception
Format(tpl, variable, inst) ==
    IF \A k \in 1..Len(tpl) : TokenOk(tpl[k], variable, inst)
    THEN [ ok |-> TRUE,  s |-> Concat(tpl, variable, inst) ]
    ELSE [ ok |-> FALSE, s |-> <<>> ]

\* /n/{institution}/{variable}/{run}/{variable}.t : one directory per variable
TplMirror ==
    << Lit(<< "/", "n", "/" >>), Fld("institution"), Lit(<< "/" >>),
       Fld("variable"), Lit(<< "/" >>), Fld("run"), Lit(<< "/" >>),
       Fld("variable"), Lit(<< ".", "t" >>) >>

\* /n/{institution}/{variable}.t : all variables in one directory
TplFlat ==
    << Lit(<< "/", "n", "/" >>), Fld("institution"), Lit(<< "/" >>),
       Fld("variable"), Lit(<< ".", "t" >>) >>

\* /n/{institution}/{foo}.t : a field that is never supplied
TplUnknown ==
    << Lit(<< "/", "n", "/" >>), Fld("institution"), Lit(<< "/" >>),
       Fld("foo"), Lit(<< ".", "t" >>) >>

\* /n/{institution}/{variable[1]}/{variable}.t
TplIndexed ==
    << Lit(<< "/", "n", "/" >>), Fld("institution"), Lit(<< "/" >>),
       Idx("variable", 1), Lit(<< "/" >>),
       Fld("variable"), Lit(<< ".", "t" >>) >>

\* /n/{variable}/{variable}.t : no institution placeholder
TplNoInst ==
    << Lit(<< "/", "n", "/" >>), Fld("variable"), Lit(<< "/" >>),
       Fld("variable"), Lit(<< ".", "t" >>) >>

\* /n/{variable}_{institution} : institution only in the file name
TplTail ==
    << Lit(<< "/", "n", "/" >>), Fld("variable"), Lit(<< "_" >>),
       Fld("institution") >>

Templates == { TplMirror, TplFlat, TplUnknown, TplIndexed, TplNoInst, TplTail }

Variables    == { << "h" >>, << "h", "u" >>, << "h", "/", "u" >> }
Institutions == { << "L" >>, << "n" >> }
OutputDirectories == { None, << "o" >>, << "/", "o" >>, << "/", "w" >> }

VariableLists == UNION { [ 1..n -> Variables ] : n \in 0..MaxVars }

----------------------------------------------------------------------------
(* Filesystem *)

RECURSIVE Split(_)
\* the non-empty "/"-separated segments of a path string
Split(s) ==
    IF s = <<>> THEN <<>>
    ELSE LET f == Find(s, << Slash >>)
         IN  IF f = -1 THEN << s >>
             ELSE IF f = 0 THEN Split(Slice(s, 1))
             ELSE << SubSeq(s, 1, f) >> \o Split(Slice(s, f + 1))

\* the directory a path string names, seen from working directory wd
Resolve(wd, p) ==
    IF p # <<>> /\ p[1] = Slash THEN Split(p) ELSE wd \o Split(p)

Prefixes(d) == { SubSeq(d, 1, k) : k \in 0..Len(d) }

IsDir(wd, p, ds) == p # <<>> /\ Resolve(wd, p) \in ds

\* len(os.listdir(p)) != 0
HasEntries(wd, p, ds, fs) ==
    LET d == Resolve(wd, p)
    IN  \/ d \in fs
        \/ \E c \in ds : Len(c) = Len(d) + 1 /\ SubSeq(c, 1, Len(d)) = d

StartDir == << << "w" >> >>

----------------------------------------------------------------------------
(* Destination directory, lines 115-122 *)

OutDirMirrorsInput(htarPath, inst, outputDirectory) ==
    Dirname(htarPath)

OutDir(htarPath, inst, outputDirectory) ==
    IF outputDirectory = None
    THEN LET i_path_start == Find(htarPath, inst)
             path_substr  == Slice(htarPath, i_path_start)
         IN  Dirname(path_substr)
    ELSE outputDirectory

----------------------------------------------------------------------------
(* Decisions taken inside the function body *)

ShouldVerifyFirstOnly(verifyFirst, idx) == verifyFirst /\ idx = 1

\* line 101: if verify_first
ShouldVerify(verifyFirst, idx) == verifyFirst

VerifyRaisesNever(ok) == FALSE

\* lines 102-109: check = True raises, the except clause re-raises
VerifyRaises(ok) == ~ok

HtarSourceLastRendered(paths, variable, lastRendered) == lastRendered

\* line 113: htar_path = htar_paths[variable]
HtarSource(paths, variable, lastRendered) == paths[variable]

ClobberFiresOnEmpty(clob, isdir, hasEntries) == ~clob /\ isdir /\ ~hasEntries

\* lines 126-130
ClobberFires(clob, isdir, hasEntries) == ~clob /\ isdir /\ hasEntries

HtarRaisesNever(ok) == FALSE

\* lines 144-148: check = True
HtarRaises(ok) == ~ok

CwdAfterHtarErrorRestored(saved, current) == saved

\* lines 144-151: the exception leaves the function before os.chdir(cwd)
CwdAfterHtarError(saved, current) == current

CwdAfterRestoreStays(saved, current) == current

\* line 151: os.chdir(cwd)
CwdAfterRestore(saved, current) == saved

----------------------------------------------------------------------------
(* State after the arguments are bound, lines 7-89 *)

Call(cmd, path, wd, ok, wrote, idx) ==
    [ cmd |-> cmd, path |-> path, wd |-> wd, ok |-> ok, wrote |-> wrote,
      idx |-> idx ]

\* destination directories this request can touch
Destinations(vl, tpl, inst, od) ==
    { Resolve(StartDir, OutDir(Format(tpl, vl[k], inst).s, inst, od)) :
        k \in { j \in 1..Len(vl) :
                  /\ Format(tpl, vl[j], inst).ok
                  /\ OutDir(Format(tpl, vl[j], inst).s, inst, od) # <<>> } }

Init ==
    /\ variable_list \in VariableLists
    /\ path_template \in Templates
    /\ institution \in Institutions
    /\ output_directory \in OutputDirectories
    /\ verify_first \in BOOLEAN
    /\ clobber \in BOOLEAN
    /\ pc = "for_verify"
    /\ i = 0
    /\ htar_paths = [ v \in {} |-> <<>> ]
    /\ htar_path = <<>>
    /\ out_dir = <<>>
    /\ cwd = <<>>
    /\ procCwd = StartDir
    /\ files \in SUBSET Destinations(variable_list, path_template,
                                     institution, output_directory)
    /\ dirs = Prefixes(StartDir) \cup UNION { Prefixes(d) : d \in files }
    /\ calls = <<>>
    /\ checks = <<>>
    /\ result = "running"

----------------------------------------------------------------------------
(* Steps of extract_c20c_data *)

\* line 90: for variable in variable_list
ForVerify ==
    /\ pc = "for_verify"
    /\ IF i < Len(variable_list)
       THEN /\ i' = i + 1
            /\ pc' = "format"
       ELSE /\ i' = 0
            /\ pc' = "for_extract"
    /\ UNCHANGED << inputs, htar_paths, htar_path, out_dir, cwd, procCwd,
                    dirs, files, calls, checks, result >>

\* lines 91-99: render the path and store it under the variable's name
FormatPath ==
    /\ pc = "format"
    /\ LET variable == variable_list[i]
           r        == Format(path_template, variable, institution)
       IN  IF r.ok
           THEN /\ htar_path' = r.s
                /\ htar_paths' =
                     [ v \in (DOMAIN htar_paths) \cup { variable } |->
                         IF v = variable THEN r.s ELSE htar_paths[v] ]
                /\ pc' = IF ShouldVerify(verify_first, i)
                         THEN "hsi" ELSE "for_verify"
                /\ UNCHANGED result
           ELSE /\ result' = "TemplateError"
                /\ pc' = "done"
                /\ UNCHANGED << htar_path, htar_paths >>
    /\ UNCHANGED << inputs, i, out_dir, cwd, procCwd, dirs, files,
                    calls, checks >>

\* lines 101-109: hsi ls <path>; any failure becomes a RuntimeError
HsiRun ==
    /\ pc = "hsi"
    /\ \E ok \in BOOLEAN :
         /\ calls' = Append(calls,
                            Call("hsi", htar_path, procCwd, ok, FALSE, i))
         /\ IF VerifyRaises(ok)
            THEN /\ result' = "VerificationError"
                 /\ pc' = "done"
            ELSE /\ pc' = "for_verify"
                 /\ UNCHANGED result
    /\ UNCHANGED << inputs, i, htar_paths, htar_path, out_dir, cwd, procCwd,
                    dirs, files, checks >>

\* line 112: for variable in variable_list; falling off the end returns
ForExtract ==
    /\ pc = "for_extract"
    /\ IF i < Len(variable_list)
       THEN /\ i' = i + 1
            /\ pc' = "out_dir"
            /\ UNCHANGED result
       ELSE /\ pc' = "done"
            /\ result' = "ok"
            /\ UNCHANGED i
    /\ UNCHANGED << inputs, htar_paths, htar_path, out_dir, cwd, procCwd,
                    dirs, files, calls, checks >>

\* lines 113-122
DetermineOutDir ==
    /\ pc = "out_dir"
    /\ htar_path' = HtarSource(htar_paths, variable_list[i], htar_path)
    /\ out_dir' = OutDir(htar_path', institution, output_directory)
    /\ pc' = "clobber"
    /\ UNCHANGED << inputs, i, htar_paths, cwd, procCwd, dirs, files,
                    calls, checks, result >>

\* lines 125-132, the return replaced by falling through to the next variable
ClobberCheckContinue ==
    /\ pc = "clobber"
    /\ LET isdir      == IsDir(procCwd, out_dir, dirs)
           hasEntries == isdir /\ HasEntries(procCwd, out_dir, dirs, files)
       IN  /\ checks' = IF clobber THEN checks
                        ELSE Append(checks,
                               [ idx |-> i, dir |-> Resolve(procCwd, out_dir),
                                 nonempty |-> hasEntries ])
           /\ pc' = IF ClobberFires(clobber, isdir, hasEntries)
                    THEN "for_extract" ELSE "makedirs"
    /\ UNCHANGED << inputs, i, htar_paths, htar_path, out_dir, cwd, procCwd,
                    dirs, files, calls, result >>

\* lines 125-132: a non-empty destination with clobber = False returns
ClobberCheck ==
    /\ pc = "clobber"
    /\ LET isdir      == IsDir(procCwd, out_dir, dirs)
           hasEntries == isdir /\ HasEntries(procCwd, out_dir, dirs, files)
       IN  /\ checks' = IF clobber THEN checks
                        ELSE Append(checks,
                               [ idx |-> i, dir |-> Resolve(procCwd, out_dir),
                                 nonempty |-> hasEntries ])
           /\ IF ClobberFires(clobber, isdir, hasEntries)
              THEN /\ result' = "ClobberSkip"
                   /\ pc' = "done"
              ELSE /\ pc' = "makedirs"
                   /\ UNCHANGED result
    /\ UNCHANGED << inputs, i, htar_paths, htar_path, out_dir, cwd, procCwd,
                    dirs, files, calls >>

\* line 135: os.makedirs(out_dir, exist_ok = True); "" raises FileNotFoundError
MakeDirs ==
    /\ pc = "makedirs"
    /\ IF out_dir = <<>>
       THEN /\ result' = "OSError"
            /\ pc' = "done"
            /\ UNCHANGED dirs
       ELSE /\ dirs' = dirs \cup Prefixes(Resolve(procCwd, out_dir))
            /\ pc' = "chdir"
            /\ UNCHANGED result
    /\ UNCHANGED << inputs, i, htar_paths, htar_path, out_dir, cwd, procCwd,
                    files, calls, checks >>

\* lines 138-141: cwd = os.getcwd(); os.chdir(out_dir)
Chdir ==
    /\ pc = "chdir"
    /\ cwd' = procCwd
    /\ procCwd' = Resolve(procCwd, out_dir)
    /\ pc' = "htar"
    /\ UNCHANGED << inputs, i, htar_paths, htar_path, out_dir, dirs, files,
                    calls, checks, result >>

\* lines 143-148: htar -T n -xf <path>, writing into the working directory
HtarRun ==
    /\ pc = "htar"
    /\ \E ok \in BOOLEAN, wrote \in BOOLEAN :
         /\ calls' = Append(calls,
                            Call("htar", htar_path, procCwd, ok, wrote, i))
         /\ files' = IF wrote THEN files \cup { procCwd } ELSE files
         /\ IF HtarRaises(ok)
            THEN /\ result' = "ExtractionError"
                 /\ procCwd' = CwdAfterHtarError(cwd, procCwd)
                 /\ pc' = "done"
            ELSE /\ pc' = "restore"
                 /\ UNCHANGED << result, procCwd >>
    /\ UNCHANGED << inputs, i, htar_paths, htar_path, out_dir, cwd, dirs,
                    checks >>

\* line 151: os.chdir(cwd)
Restore ==
    /\ pc = "restore"
    /\ procCwd' = CwdAfterRestore(cwd, procCwd)
    /\ pc' = "for_extract"
    /\ UNCHANGED << inputs, i, htar_paths, htar_path, out_dir, cwd, dirs,
                    files, calls, checks, result >>

Next ==
    \/ ForVerify
    \/ FormatPath
    \/ HsiRun
    \/ ForExtract
    \/ DetermineOutDir
    \/ ClobberCheck
    \/ MakeDirs
    \/ Chdir
    \/ HtarRun
    \/ Restore

Spec == Init /\ [][Next]_vars

----------------------------------------------------------------------------
(* Properties *)

IsHsi(c)  == c.cmd = "hsi"
IsHtar(c) == c.cmd = "htar"

HsiCalls  == SelectSeq(calls, IsHsi)
HtarCalls == SelectSeq(calls, IsHtar)

Returned == pc = "done" /\ result \in { "ok", "ClobberSkip" }

\* the rendered archive path of the k-th entry of the variable list
PathOf(k) == Format(path_template, variable_list[k], institution).s

\* C1: with verify_first, once an hsi check has failed no htar invocation
\* exists in the run, whichever variables verified before it, and the run
\* has ended with the verification error.
C1_FailedCheckBlocksAllExtraction ==
    (verify_first /\ \E k \in 1..Len(calls) : IsHsi(calls[k]) /\ ~calls[k].ok)
        => /\ HtarCalls = <<>>
           /\ pc = "done"
           /\ result = "VerificationError"

\* a later variable fails its check after an earlier one passed
C1_Witness ==
    /\ verify_first
    /\ Len(calls) >= 2
    /\ IsHsi(calls[1]) /\ calls[1].ok
    /\ IsHsi(calls[Len(calls)]) /\ ~calls[Len(calls)].ok
    /\ result = "VerificationError"

\* C2: with clobber disallowed, a clobber check that finds the destination
\* existing and non-empty ends the run with success at once: no htar
\* invocation exists for that variable or any later one (none at all when
\* it is the first variable).
C2_ClobberSkipEndsRun ==
    \A k \in 1..Len(checks) :
        checks[k].nonempty
            => /\ ~clobber
               /\ pc = "done"
               /\ result = "ClobberSkip"
               /\ \A m \in 1..Len(HtarCalls) : HtarCalls[m].idx < checks[k].idx
               /\ (checks[k].idx = 1 => HtarCalls = <<>>)

\* the check fires on the second variable while a third is still waiting
C2_Witness ==
    /\ result = "ClobberSkip"
    /\ i = 2
    /\ Len(variable_list) = 3
    /\ Len(HtarCalls) = 1

\* C3: a failed htar invocation is the last external call of the run: the
\* run has ended with the extraction error and no htar invocation exists
\* for a variable at a later position.
C3_FailedExtractionAbortsLoop ==
    \A k \in 1..Len(calls) :
        (IsHtar(calls[k]) /\ ~calls[k].ok)
            => /\ k = Len(calls)
               /\ pc = "done"
               /\ result = "ExtractionError"
               /\ \A m \in 1..Len(calls) :
                    IsHtar(calls[m]) => calls[m].idx <= calls[k].idx

\* the second of three variables fails
C3_Witness ==
    /\ Len(variable_list) = 3
    /\ Len(HtarCalls) = 2
    /\ HtarCalls[1].ok
    /\ ~HtarCalls[2].ok /\ HtarCalls[2].idx = 2
    /\ pc = "done"

\* C4: when the run has returned successfully (all variables extracted, or
\* a clobber skip) the process's working directory is the one it started in.
C4_CwdRestoredOnSuccess ==
    Returned => procCwd = StartDir

\* two extractions into derived directories, then a normal return
C4_Witness ==
    /\ result = "ok"
    /\ output_directory = None
    /\ Len(HtarCalls) >= 2
    /\ HtarCalls[1].wd # HtarCalls[2].wd
    /\ procCwd = StartDir

\* C5: a template-rendering failure precedes every external process: when
\* rendering has failed, no hsi and no htar invocation has occurred.
C5_TemplateErrorBeforeAnyCall ==
    result = "TemplateError" => calls = <<>>

\* the part of C5 that concerns htar only
C5_TemplateErrorBeforeAnyHtar ==
    result = "TemplateError" => HtarCalls = <<>>

NoSlash(s) == \A k \in 1..Len(s) : s[k] # Slash

\* d is s without its final segment: s is d, then separators, then a name
\* free of separators; d keeps no trailing separator unless it is the root
MinusFilename(d, s) ==
    \E m \in 0..Len(s) :
        /\ NoSlash(SubSeq(s, m + 1, Len(s)))
        /\ m > 0 => s[m] = Slash
        /\ \E n \in 0..m :
              /\ d = SubSeq(s, 1, n)
              /\ \A j \in (n + 1)..m : s[j] = Slash
              /\ \/ n = 0
                 \/ s[n] # Slash
                 \/ (n = m /\ \A j \in 1..m : s[j] = Slash)

\* k is the position of the first occurrence of sub in s
FirstOccurrence(s, sub, k) ==
    /\ k \in 1..(Len(s) - Len(sub) + 1)
    /\ SubSeq(s, k, k + Len(sub) - 1) = sub
    /\ \A j \in 1..(k - 1) : SubSeq(s, j, j + Len(sub) - 1) # sub

OutDirSet == pc \in { "clobber", "makedirs", "chdir", "htar", "restore" }

C7_OneExtractionPerVariableInOrder ==
    (pc = "done" /\ result = "ok") =>
        /\ Len(HtarCalls) = Len(variable_list)
        /\ \A k \in 1..Len(HtarCalls) :
             /\ HtarCalls[k].idx = k
             /\ HtarCalls[k].path = PathOf(k)
             /\ HtarCalls[k].wd =
                  Resolve(StartDir,
                          OutDir(PathOf(k), institution, output_directory))

\* three extractions of which two sources differ
C7_Witness ==
    /\ pc = "done" /\ result = "ok"
    /\ Len(HtarCalls) = 3
    /\ HtarCalls[1].path # HtarCalls[3].path
    /\ HtarCalls[1].wd # HtarCalls[3].wd

\* C8: with verify_first, no hsi invocation follows an htar invocation, and
\* once an htar invocation exists every entry of the variable list has a
\* successful hsi check of its path.
C8_VerificationGate ==
    verify_first =>
        /\ \A a \in 1..Len(calls), b \in 1..Len(calls) :
             (a < b /\ IsHtar(calls[a])) => ~IsHsi(calls[b])
        /\ HtarCalls # <<>> =>
             \A k \in 1..Len(variable_list) :
                 \E m \in 1..Len(HsiCalls) :
                     /\ HsiCalls[m].path = PathOf(k)
                     /\ HsiCalls[m].ok
                     /\ HsiCalls[m].idx = k

\* the first extraction starts after three different paths were verified
C8_Witness ==
    /\ verify_first
    /\ Len(variable_list) = 3
    /\ Len(HtarCalls) = 1
    /\ Len(HsiCalls) = 3
    /\ HsiCalls[1].path # HsiCalls[2].path

\* C9: after a failed htar invocation the run has ended in error with the
\* working directory still the failing variable's destination directory,
\* not the directory saved before the change.
C9_CwdNotRestoredOnFailure ==
    result = "ExtractionError" =>
        /\ pc = "done"
        /\ procCwd = Resolve(cwd, out_dir)
        /\ procCwd = HtarCalls[Len(HtarCalls)].wd
        /\ Resolve(cwd, out_dir) # cwd => procCwd # cwd

\* the second variable fails inside a derived directory
C9_Witness ==
    /\ result = "ExtractionError"
    /\ i = 2
    /\ output_directory = None
    /\ cwd = StartDir
    /\ procCwd # StartDir

\* every variable of the list renders and resolves to one destination
SharedDestination ==
    /\ \A k \in 1..Len(variable_list) :
         Format(path_template, variable_list[k], institution).ok
    /\ \A k \in 1..Len(variable_list), m \in 1..Len(variable_list) :
         Resolve(StartDir, OutDir(PathOf(k), institution, output_directory))
           = Resolve(StartDir, OutDir(PathOf(m), institution, output_directory))

\* C10: with clobber disallowed every htar invocation runs in a directory
\* that its variable's clobber check found missing or empty; and when all
\* variables share one destination and every extraction succeeds leaving
\* an entry there, at most one htar invocation occurs and the run that made
\* it returns success.
C10_NoClobberInvariant ==
    ~clobber =>
        /\ \A k \in 1..Len(HtarCalls) :
             \E m \in 1..Len(checks) :
                 /\ checks[m].idx = HtarCalls[k].idx
                 /\ checks[m].dir = HtarCalls[k].wd
                 /\ ~checks[m].nonempty
        /\ ( /\ SharedDestination
             /\ \A k \in 1..Len(HtarCalls) :
                  HtarCalls[k].ok /\ HtarCalls[k].wrote )
           => /\ Len(HtarCalls) <= 1
              /\ (pc = "done" /\ HtarCalls # <<>>) => Returned

\* coinciding derived directories: the first extraction fills the shared
\* directory and the second variable is skipped
C10_Witness ==
    /\ ~clobber
    /\ output_directory = None
    /\ SharedDestination
    /\ Len(variable_list) >= 2
    /\ variable_list[1] # variable_list[2]
    /\ Len(HtarCalls) = 1
    /\ HtarCalls[1].wrote
    /\ result = "ClobberSkip"

====
